---------------------------- MODULE Spec2Model ----------------------------
(***************************************************************************)
(* Model of download_vrs.py: the resumable transfer (ranged_download), the *)
(* per-descriptor driver (download_one), the worker loop and the           *)
(* dispatcher part of main, over a POSIX-like filesystem (paths name       *)
(* inodes, open handles keep their inode across a rename) and an HTTP      *)
(* server whose answers are chosen by the environment.                    *)
(*                                                                         *)
(* An optional value (Python None or a value) is the empty sequence or a   *)
(* one-element sequence.  File contents are sequences of bytes; the model  *)
(* counts sizes in bytes and scales CHUNK_SIZE down to one byte.           *)
(***************************************************************************)
EXTENDS Integers, Sequences, FiniteSets, TLC

(* ------------------------------ bounds --------------------------------- *)
MaxLen == 2
MaxEntries == 2
MaxWorkers == 2
MaxRuns == 2
MaxDepth == 2

(* --------------------------- program constants ------------------------- *)
CHUNK_SIZE == 1

None == <<>>
Some(v) == <<v>>
Min(a, b) == IF a < b THEN a ELSE b
Max(a, b) == IF a > b THEN a ELSE b

Bytes == 1..2

RECURSIVE SeqsUpTo(_, _)
SeqsUpTo(S, n) ==
    IF n = 0 THEN {<<>>}
    ELSE LET shorter == SeqsUpTo(S, n - 1)
         IN  shorter \cup {Append(s, b) : s \in {x \in shorter : Len(x) = n - 1}, b \in S}

Contents == SeqsUpTo(Bytes, MaxLen)
Sources == {c \in Contents : Len(c) > 0}

(* ----------------------------- pure helpers ---------------------------- *)
ForbiddenChars == {"\\", "/", ":", "*", "?", "\"", "<", ">", "|"}

sanitize_filename(name) ==
    [i \in DOMAIN name |-> IF name[i] \in ForbiddenChars THEN "_" ELSE name[i]]

\* hashlib.sha1(...).hexdigest(): a collision-free digest of the bytes read,
\* written as a lower-case hex string.
RECURSIVE DigestOf(_)
DigestOf(c) ==
    IF c = <<>> THEN 1 ELSE DigestOf(SubSeq(c, 1, Len(c) - 1)) * 3 + c[Len(c)]

sha1_of_file(c) == [digest |-> DigestOf(c), upper |-> FALSE]

\* a comparison of hex strings that keeps the letter case
Lower_KeepsCase(h) == h

\* str.lower() on a hex string
Lower(h) == [h EXCEPT !.upper = FALSE]

DestPath(filename) == filename
TmpPath(dest_path) == dest_path \o <<".part">>

(* ------------------------------ document ------------------------------- *)
\* What download_one reads from a descriptor with entry.get(...): the name is
\* a sequence of characters, the other fields are optional (None for a key
\* that is missing or null).
Entry(name, url, size, sha) ==
    [filename |-> name, download_url |-> url, file_size_bytes |-> size, sha1sum |-> sha]

NoFields == Entry(<<>>, None, None, None)

\* A node of the parsed JSON: a dict (its keys in document order, kids[k] the
\* value under keys[k], fields what entry.get reads from it), a list (kids
\* its items), or a scalar.
Scalar == [kind |-> "scalar", keys |-> <<>>, kids |-> <<>>, fields |-> NoFields]
List(items) == [kind |-> "list", keys |-> <<>>, kids |-> items, fields |-> NoFields]
Dict(ks, vals, e) == [kind |-> "dict", keys |-> ks, kids |-> vals, fields |-> e]

HasKey(obj, key) == \E k \in DOMAIN obj.keys : obj.keys[k] = key

\* the node at a position: a position is the sequence of child indices that
\* leads to the node from the root
RECURSIVE NodeAt(_, _)
NodeAt(obj, path) ==
    IF path = <<>> THEN obj ELSE NodeAt(obj.kids[Head(path)], Tail(path))

\* an extraction that does not look inside a node it has yielded
RECURSIVE find_entries_NoDescent(_, _)
RECURSIVE FromKids_NoDescent(_, _, _)
find_entries_NoDescent(obj, path) ==
    IF obj.kind = "dict" /\ HasKey(obj, "filename") /\ HasKey(obj, "download_url")
    THEN <<path>>
    ELSE IF obj.kind \in {"dict", "list"} THEN FromKids_NoDescent(obj, path, 1)
    ELSE <<>>
FromKids_NoDescent(obj, path, k) ==
    IF k > Len(obj.kids) THEN <<>>
    ELSE find_entries_NoDescent(obj.kids[k], Append(path, k))
             \o FromKids_NoDescent(obj, path, k + 1)

\* lines 66-76: the generator, as the sequence of the positions of the nodes
\* it yields; FromKids is the loop over obj.values() or over the list items
RECURSIVE find_entries(_, _)
RECURSIVE FromKids(_, _, _)
find_entries(obj, path) ==
    IF obj.kind = "dict"
    THEN (IF HasKey(obj, "filename") /\ HasKey(obj, "download_url")
          THEN <<path>> ELSE <<>>) \o FromKids(obj, path, 1)
    ELSE IF obj.kind = "list" THEN FromKids(obj, path, 1)
    ELSE <<>>
FromKids(obj, path, k) ==
    IF k > Len(obj.kids) THEN <<>>
    ELSE find_entries(obj.kids[k], Append(path, k)) \o FromKids(obj, path, k + 1)

\* a cap that is one short
Capped_OneShort(es, max_files) ==
    IF max_files > 0 THEN SubSeq(es, 1, Min(max_files - 1, Len(es))) ELSE es

recursive_find_entries(obj) == find_entries(obj, <<>>)

\* re.IGNORECASE on the letters of the pattern
FoldCase(c) ==
    CASE c = "V" -> "v" [] c = "R" -> "r" [] c = "S" -> "s" [] OTHER -> c

\* line 44, 225: VRS_REGEX.search(fname) for the pattern \.vrs$ : the four
\* characters are matched ignoring case, and $ matches at the end of the
\* string and also just before a newline that ends the string
MatchesAt(fname, last) ==
    /\ last >= 4
    /\ [k \in 1..4 |-> FoldCase(fname[last - 4 + k])] = <<".", "v", "r", "s">>

VRS_REGEX(fname) ==
    \/ MatchesAt(fname, Len(fname))
    \/ Len(fname) > 0 /\ fname[Len(fname)] = "\n" /\ MatchesAt(fname, Len(fname) - 1)

\* lines 222-227: the yielded descriptors whose name matches VRS_REGEX
Eligible(obj, found) ==
    SelectSeq([k \in DOMAIN found |-> NodeAt(obj, found[k]).fields],
              LAMBDA e : VRS_REGEX(e.filename))

\* lines 234-239: entries[:max_files] when max_files > 0, else all of them
Capped(es, max_files) ==
    IF max_files > 0 THEN SubSeq(es, 1, Min(max_files, Len(es))) ELSE es


(* ------------------------------- state --------------------------------- *)
VARIABLES
    args,        \* parsed command line: workers, max_files, no_verify, skip_existing
    doc,         \* the parsed JSON document (json.load)
    yielded,     \* what recursive_find_entries yielded: positions in doc, in order
    entries,     \* main's list of eligible descriptors (after filter and cap)
    src,         \* the server's content for each URL
    outdir,      \* TRUE when the output directory exists
    fs,          \* directory of outdir: path -> inode
    data,        \* inode -> bytes
    queue,       \* Queue(): descriptors (indices into entries) and sentinels
    unfinished,  \* Queue.unfinished_tasks
    mpc,         \* main's position
    mi,          \* main's loop index (puts, sentinels)
    threads,     \* the worker threads main has started
    wpc,         \* each worker's position
    witem,       \* the descriptor a worker holds (index into entries)
    wexp,        \* download_one's expected_size
    wexisting,   \* ranged_download's existing
    wresp,       \* the response being read: status, bytes not yet read
    wfh,         \* the worker's open file on the staging path
    wstaged,     \* what the staging path held when ranged_download looked at it
    log,         \* status line printed for each descriptor in this run
    reqs,        \* requests sent in this run: <<descriptor, "HEAD" | "GET">>
    run,         \* number of the current invocation of the program
    prevPass,    \* descriptors whose file passed verification in the previous run
    start        \* content of each destination path when this run started

mvars == <<mpc, mi, threads>>
qvars == <<queue, unfinished>>
fvars == <<outdir, fs, data>>
wvars == <<wpc, witem, wexp, wexisting, wresp, wfh, wstaged>>
gvars == <<log, reqs>>
rvars == <<args, doc, yielded, entries, src, run, prevPass, start>>
vars == <<args, doc, yielded, entries, src, outdir, fs, data, queue, unfinished, mpc, mi, threads,
          wpc, witem, wexp, wexisting, wresp, wfh, wstaged, log, reqs, run, prevPass,
          start>>

Workers == 1..Max(1, MaxWorkers)
Sentinel == 0
NoResp == [status |-> 0, body |-> <<>>]

\* line 241
Verify == (~args.no_verify) /\ (~args.skip_existing)

\* line 143, 157
FileName(i) == sanitize_filename(entries[i].filename)
DestOf(i) == DestPath(FileName(i))

(* ----------------------------- filesystem ------------------------------ *)
Exists(path) == path \in DOMAIN fs
GetSize(path) == Len(data[fs[path]])
ReadFile(path) == data[fs[path]]

NewIno == CHOOSE n \in 1..(Cardinality(DOMAIN data) + 1) :
              n \notin DOMAIN data /\ \A m \in 1..(n - 1) : m \in DOMAIN data

\* the inodes a directory entry or an open file still refers to
Referenced(fs2, fh2) ==
    {fs2[p] : p \in DOMAIN fs2} \cup {fh2[t][1].ino : t \in {x \in Workers : fh2[x] # None}}

Collect(data2, fs2, fh2) ==
    [n \in (DOMAIN data2) \cap Referenced(fs2, fh2) |-> data2[n]]

\* f.write(chunk) on a handle: append mode writes at the end of the file, write
\* mode at the handle's own offset (a gap is filled with zero bytes)
WriteAt(content, h, chunk) ==
    IF h.app THEN content \o chunk
    ELSE LET padded == content \o [k \in 1..(h.pos - Len(content)) |-> 0]
         IN  SubSeq(padded, 1, h.pos) \o chunk
                 \o SubSeq(padded, h.pos + Len(chunk) + 1, Len(padded))

\* os.replace(tmp_path, dest_path)
Replaced(tmp, dest) ==
    [p \in ((DOMAIN fs) \ {tmp}) \cup {dest} |-> IF p = dest THEN fs[tmp] ELSE fs[p]]

DestContent(i) == IF Exists(DestOf(i)) THEN Some(ReadFile(DestOf(i))) ELSE None


(* ------------------------------- server -------------------------------- *)
\* What the server may answer to a GET that urlopen hands back to the caller
\* (urlopen raises HTTPError for every final status outside 2xx):
\*   "honor"     200 with the whole content, or 206 with the bytes from the
\*               requested offset when a Range header asks for bytes it has
\*   "ignore"    200 with the whole content, whatever the Range header
\*   "nocontent" 204 with an empty body
ServerKinds == {"honor", "ignore", "nocontent"}

Answer(kind, url, offset) ==
    CASE kind = "honor" /\ offset = 0 -> [status |-> 200, body |-> src[url]]
      [] kind = "honor" /\ offset > 0 ->
             [status |-> 206, body |-> SubSeq(src[url], offset + 1, Len(src[url]))]
      [] kind = "ignore"    -> [status |-> 200, body |-> src[url]]
      [] kind = "nocontent" -> [status |-> 204, body |-> <<>>]

\* a range that starts at or after the end of the content is answered 416
Satisfiable(kind, url, offset) == kind = "honor" => offset < Len(src[url])

(* ------------------------------- worker -------------------------------- *)
ResetWorker(t) ==
    /\ witem' = [witem EXCEPT ![t] = 0]
    /\ wexp' = [wexp EXCEPT ![t] = None]
    /\ wexisting' = [wexisting EXCEPT ![t] = 0]
    /\ wresp' = [wresp EXCEPT ![t] = NoResp]
    /\ wstaged' = [wstaged EXCEPT ![t] = None]

\* lines 199-202 on a normal return of download_one: finally q.task_done(),
\* then the loop goes back to q.get()
TaskDone(t, line) ==
    /\ log' = [log EXCEPT ![witem[t]] = line]
    /\ unfinished' = unfinished - 1
    /\ wpc' = [wpc EXCEPT ![t] = "get"]
    /\ ResetWorker(t)

\* lines 199-202 when download_one raises: finally q.task_done(), then the
\* exception leaves worker() and the thread ends
RaiseOut(t) ==
    /\ log' = [log EXCEPT ![witem[t]] = "RAISED"]
    /\ unfinished' = unfinished - 1
    /\ wpc' = [wpc EXCEPT ![t] = "crashed"]
    /\ ResetWorker(t)

\* a get that reads the head of the queue and leaves it there
WorkerGet_Peek(t) ==
    /\ t \in threads
    /\ wpc[t] = "get"
    /\ queue # <<>>
    /\ queue' = IF Head(queue) = Sentinel THEN Tail(queue) ELSE queue
    /\ IF Head(queue) = Sentinel
       THEN /\ wpc' = [wpc EXCEPT ![t] = "exited"]
            /\ UNCHANGED witem
       ELSE /\ wpc' = [wpc EXCEPT ![t] = "d_start"]
            /\ witem' = [witem EXCEPT ![t] = Head(queue)]
    /\ UNCHANGED <<unfinished, wexp, wexisting, wresp, wfh, wstaged, mvars, fvars, gvars,
                   rvars>>

\* lines 195-198: item = q.get(); a sentinel ends the loop
WorkerGet(t) ==
    /\ t \in threads
    /\ wpc[t] = "get"
    /\ queue # <<>>
    /\ queue' = Tail(queue)
    /\ IF Head(queue) = Sentinel
       THEN /\ wpc' = [wpc EXCEPT ![t] = "exited"]
            /\ UNCHANGED witem
       ELSE /\ wpc' = [wpc EXCEPT ![t] = "d_start"]
            /\ witem' = [witem EXCEPT ![t] = Head(queue)]
    /\ UNCHANGED <<unfinished, wexp, wexisting, wresp, wfh, wstaged, mvars, fvars, gvars,
                   rvars>>

\* a skip that comes after the output directory has been created
DlNoUrl_MakesDir(t) ==
    /\ wpc[t] = "d_start"
    /\ entries[witem[t]].download_url \in {None, Some("")}
    /\ TaskDone(t, "SKIP")
    /\ outdir' = TRUE
    /\ UNCHANGED <<queue, wfh, reqs, mvars, fs, data, rvars>>

\* lines 143-147: no download_url (missing or empty): [SKIP]
DlNoUrl(t) ==
    /\ wpc[t] = "d_start"
    /\ entries[witem[t]].download_url \in {None, Some("")}
    /\ TaskDone(t, "SKIP")
    /\ UNCHANGED <<queue, wfh, reqs, mvars, fvars, rvars>>

\* lines 149-155: expected_size from the descriptor, else from a HEAD request
\* (head_request_length: the Content-Length, or None when the request fails or
\* the header is missing)
DlExpectedSize(t) ==
    /\ wpc[t] = "d_start"
    /\ entries[witem[t]].download_url \notin {None, Some("")}
    /\ LET e == entries[witem[t]] IN
       IF e.file_size_bytes # None
       THEN /\ wexp' = [wexp EXCEPT ![t] = e.file_size_bytes]
            /\ UNCHANGED reqs
       ELSE /\ \E answer \in {None, Some(Len(src[e.download_url[1]]))} :
                  wexp' = [wexp EXCEPT ![t] = answer]
            /\ reqs' = reqs \cup {<<witem[t], "HEAD">>}
    /\ wpc' = [wpc EXCEPT ![t] = "d_check"]
    /\ UNCHANGED <<witem, wexisting, wresp, wfh, wstaged, log, mvars, qvars, fvars, rvars>>

\* lines 160-173: does the file at dest_path satisfy the descriptor?
Satisfied(t) ==
    LET e == entries[witem[t]]
        dest == DestOf(witem[t])
        size_ok == (wexp[t] # None) => (GetSize(dest) = wexp[t][1])
        sha_ok == (e.sha1sum # None) =>
                      (Lower(sha1_of_file(ReadFile(dest))) = Lower(e.sha1sum[1]))
    IN  size_ok /\ sha_ok

\* lines 157-173: makedirs, then skip when the file exists and verifies
DlCheckExisting(t) ==
    /\ wpc[t] = "d_check"
    /\ outdir' = TRUE
    /\ IF Exists(DestOf(witem[t])) /\ Verify /\ Satisfied(t)
       THEN /\ TaskDone(t, "OK_EXISTS")
            /\ UNCHANGED <<queue, wfh, reqs, fs, data, mvars, rvars>>
       ELSE /\ wpc' = [wpc EXCEPT ![t] = "rd_start"]
            /\ UNCHANGED <<witem, wexp, wexisting, wresp, wfh, wstaged, gvars, qvars, fs, data,
                           mvars, rvars>>

\* lines 166-170: sha1_of_file raises while the existing file is read; the
\* exception is caught, sha_ok is False and the file is downloaded again
DlCheckHashFails(t) ==
    /\ wpc[t] = "d_check"
    /\ Exists(DestOf(witem[t])) /\ Verify
    /\ entries[witem[t]].sha1sum # None
    /\ wpc' = [wpc EXCEPT ![t] = "rd_start"]
    /\ UNCHANGED <<witem, wexp, wexisting, wresp, wfh, wstaged, gvars, qvars, fvars, mvars,
                   rvars>>

\* line 158 (os.makedirs fails) or line 164 (os.path.getsize fails): the
\* exception is not caught in download_one
DlCheckRaises(t) ==
    /\ wpc[t] = "d_check"
    /\ RaiseOut(t)
    /\ UNCHANGED <<queue, wfh, reqs, mvars, fvars, rvars>>


(* --------------------------- ranged_download --------------------------- *)
TmpOf(i) == TmpPath(DestOf(i))
UrlOf(i) == entries[i].download_url[1]

\* a resume that forgets the bytes already staged and always starts over
ResumeOffset_AlwaysRestart(existing, status) == 0

\* lines 105-106: the offset the body is written at, given the response status
ResumeOffset(existing, status) ==
    IF existing > 0 /\ status \notin {206, 200} THEN 0 ELSE existing

\* lines 92-108: size of the staging file, the request (with a Range header
\* when existing > 0) and a 2xx response
RdRequest(t) ==
    /\ wpc[t] = "rd_start"
    /\ LET i == witem[t]
           existing == IF Exists(TmpOf(i)) THEN GetSize(TmpOf(i)) ELSE 0
       IN  /\ wstaged' = [wstaged EXCEPT ![t] =
                              IF Exists(TmpOf(i)) THEN Some(ReadFile(TmpOf(i))) ELSE None]
           /\ \E kind \in ServerKinds :
                 /\ Satisfiable(kind, UrlOf(i), existing)
                 /\ LET resp == Answer(kind, UrlOf(i), existing) IN
                    /\ wresp' = [wresp EXCEPT ![t] = resp]
                    /\ wexisting' = [wexisting EXCEPT ![t] =
                                         ResumeOffset(existing, resp.status)]
           /\ reqs' = reqs \cup {<<i, "GET">>}
    /\ wpc' = [wpc EXCEPT ![t] = "rd_open"]
    /\ UNCHANGED <<witem, wexp, wfh, log, mvars, qvars, fvars, rvars>>

\* a failed transfer whose exception is not caught in ranged_download
ReturnFalse_Raises(t) ==
    /\ wfh' = [wfh EXCEPT ![t] = None]
    /\ data' = Collect(data, fs, [wfh EXCEPT ![t] = None])
    /\ RaiseOut(t)

\* an error handler that empties the staging file
ReturnFalse_Truncates(t) ==
    /\ wfh' = [wfh EXCEPT ![t] = None]
    /\ data' = LET tmp == TmpPath(DestOf(witem[t]))
                   kept == Collect(data, fs, [wfh EXCEPT ![t] = None])
               IN  IF Exists(tmp) THEN [kept EXCEPT ![fs[tmp]] = <<>>] ELSE kept
    /\ TaskDone(t, "FAIL")

\* lines 138-140 and 177-179: an exception inside the try (the error is
\* written, ranged_download returns False) and download_one prints [FAIL]
ReturnFalse(t) ==
    /\ wfh' = [wfh EXCEPT ![t] = None]
    /\ data' = Collect(data, fs, [wfh EXCEPT ![t] = None])
    /\ TaskDone(t, "FAIL")

\* line 103: urlopen raises (unreachable host, timeout, or a final status
\* outside 2xx such as 404, 416, 500)
RdRequestFails(t) ==
    /\ wpc[t] = "rd_start"
    /\ reqs' = reqs \cup {<<witem[t], "GET">>}
    /\ ReturnFalse(t)
    /\ UNCHANGED <<queue, outdir, fs, mvars, rvars>>

\* line 118: open(tmp_path, 'ab' if existing > 0 else 'wb')
RdOpen(t) ==
    /\ wpc[t] = "rd_open"
    /\ LET tmp == TmpOf(witem[t])
           append == wexisting[t] > 0
           ino == IF Exists(tmp) THEN fs[tmp] ELSE NewIno
       IN  /\ fs' = IF Exists(tmp) THEN fs ELSE (tmp :> ino) @@ fs
           /\ data' = IF Exists(tmp) /\ append THEN data ELSE (ino :> <<>>) @@ data
           /\ wfh' = [wfh EXCEPT ![t] = Some([ino |-> ino, pos |-> 0, app |-> append])]
    /\ wpc' = [wpc EXCEPT ![t] = "rd_loop"]
    /\ UNCHANGED <<witem, wexp, wexisting, wresp, wstaged, outdir, gvars, mvars, qvars, rvars>>

\* lines 120-124: one chunk read and written
RdWrite(t) ==
    /\ wpc[t] = "rd_loop"
    /\ wresp[t].body # <<>>
    /\ LET h == wfh[t][1]
           n == Min(CHUNK_SIZE, Len(wresp[t].body))
           chunk == SubSeq(wresp[t].body, 1, n)
       IN  /\ data' = [data EXCEPT ![h.ino] = WriteAt(@, h, chunk)]
           /\ wfh' = [wfh EXCEPT ![t] = Some([h EXCEPT !.pos = @ + n])]
           /\ wresp' = [wresp EXCEPT ![t].body = SubSeq(@, n + 1, Len(@))]
    /\ UNCHANGED <<wpc, witem, wexp, wexisting, wstaged, outdir, fs, gvars, mvars, qvars, rvars>>

\* lines 118-122: the file is closed when the with block is left
CloseFile(t) ==
    /\ wfh' = [wfh EXCEPT ![t] = None]
    /\ data' = Collect(data, fs, [wfh EXCEPT ![t] = None])

\* lines 120-122: resp.read returns b'' at the end of the body
RdEof(t) ==
    /\ wpc[t] = "rd_loop"
    /\ wresp[t].body = <<>>
    /\ CloseFile(t)
    /\ wpc' = [wpc EXCEPT ![t] = "rd_replace"]
    /\ UNCHANGED <<witem, wexp, wexisting, wresp, wstaged, outdir, fs, gvars, mvars, qvars,
                   rvars>>

\* lines 120-122: resp.read(amt) also returns b'' when the peer closes the
\* connection before the declared length was sent: no exception is raised
RdShortBody(t) ==
    /\ wpc[t] = "rd_loop"
    /\ wresp[t].body # <<>>
    /\ CloseFile(t)
    /\ wpc' = [wpc EXCEPT ![t] = "rd_replace"]
    /\ UNCHANGED <<witem, wexp, wexisting, wresp, wstaged, outdir, fs, gvars, mvars, qvars,
                   rvars>>

\* lines 118-137, 138-140: open, read, write or os.replace raises (connection
\* reset, timeout, disk error)
RdIoFails(t) ==
    /\ wpc[t] \in {"rd_open", "rd_loop", "rd_replace"}
    /\ ReturnFalse(t)
    /\ UNCHANGED <<queue, outdir, fs, reqs, mvars, rvars>>

\* lines 135-137: os.replace(tmp_path, dest_path); FileNotFoundError when the
\* staging path is gone
RdReplace(t) ==
    /\ wpc[t] = "rd_replace"
    /\ LET i == witem[t] IN
       IF Exists(TmpOf(i))
       THEN /\ fs' = Replaced(TmpOf(i), DestOf(i))
            /\ data' = Collect(data, Replaced(TmpOf(i), DestOf(i)), wfh)
            /\ wpc' = [wpc EXCEPT ![t] = "d_verify"]
            /\ UNCHANGED <<witem, wexp, wexisting, wresp, wfh, wstaged, gvars, unfinished>>
       ELSE /\ ReturnFalse(t)
            /\ UNCHANGED <<fs, reqs>>
    /\ UNCHANGED <<queue, outdir, mvars, rvars>>

\* a verification that removes the file it finds wrong
DlVerify_RemovesMismatch(t) ==
    /\ wpc[t] = "d_verify"
    /\ TaskDone(t, IF ~Verify THEN "DONE" ELSE IF Satisfied(t) THEN "OK" ELSE "WARN")
    /\ LET dest == DestOf(witem[t])
           kept == [p \in (DOMAIN fs) \ {dest} |-> fs[p]]
       IN  IF Verify /\ ~Satisfied(t) /\ Exists(dest)
           THEN fs' = kept /\ data' = Collect(data, kept, wfh)
           ELSE UNCHANGED <<fs, data>>
    /\ UNCHANGED <<queue, wfh, reqs, mvars, outdir, rvars>>

\* lines 181-192: verification after a download; a mismatch is a warning
DlVerify(t) ==
    /\ wpc[t] = "d_verify"
    /\ TaskDone(t, IF ~Verify THEN "DONE" ELSE IF Satisfied(t) THEN "OK" ELSE "WARN")
    /\ UNCHANGED <<queue, wfh, reqs, mvars, fvars, rvars>>

\* lines 183, 188: os.path.getsize or sha1_of_file raises; not caught
DlVerifyRaises(t) ==
    /\ wpc[t] = "d_verify"
    /\ Verify
    /\ wexp[t] # None \/ entries[witem[t]].sha1sum # None
    /\ RaiseOut(t)
    /\ UNCHANGED <<queue, wfh, reqs, mvars, fvars, rvars>>


(* -------------------------------- main --------------------------------- *)
EmptyDir == [p \in {} |-> 0]
NoData == [n \in {} |-> <<>>]

FreshWorkers ==
    /\ wpc = [t \in Workers |-> "idle"]
    /\ witem = [t \in Workers |-> 0]
    /\ wexp = [t \in Workers |-> None]
    /\ wexisting = [t \in Workers |-> 0]
    /\ wresp = [t \in Workers |-> NoResp]
    /\ wfh = [t \in Workers |-> None]
    /\ wstaged = [t \in Workers |-> None]

ResetWorkers ==
    /\ wpc' = [t \in Workers |-> "idle"]
    /\ witem' = [t \in Workers |-> 0]
    /\ wexp' = [t \in Workers |-> None]
    /\ wexisting' = [t \in Workers |-> 0]
    /\ wresp' = [t \in Workers |-> NoResp]
    /\ wfh' = [t \in Workers |-> None]
    /\ wstaged' = [t \in Workers |-> None]

\* lines 219-239: the document is searched, the descriptors whose name matches
\* are kept and the list is cut to --max-files (start records what each
\* destination path holds at this point, before the run writes anything)
MainFindEntries ==
    /\ mpc = "load"
    /\ yielded' = recursive_find_entries(doc)
    /\ LET es == Capped(Eligible(doc, recursive_find_entries(doc)), args.max_files) IN
       /\ entries' = es
       /\ log' = [i \in DOMAIN es |-> ""]
       /\ start' = [i \in DOMAIN es |->
                       LET dest == DestPath(sanitize_filename(es[i].filename))
                       IN  IF Exists(dest) THEN Some(ReadFile(dest)) ELSE None]
    /\ mpc' = "start"
    /\ UNCHANGED <<args, doc, src, run, prevPass, reqs, mi, threads, qvars, fvars, wvars>>

\* lines 229-231: nothing to download
MainNoEntries ==
    /\ mpc = "start"
    /\ entries = <<>>
    /\ mpc' = "returned"
    /\ UNCHANGED <<mi, threads, qvars, fvars, wvars, gvars, rvars>>

\* a dispatcher that starts args.workers threads, none for 0 or less
MainStartThreads_NoFloor ==
    /\ mpc = "start"
    /\ entries # <<>>
    /\ threads' = 1..args.workers
    /\ wpc' = [t \in Workers |-> IF t \in 1..args.workers THEN "get" ELSE "idle"]
    /\ mpc' = "put"
    /\ mi' = 1
    /\ UNCHANGED <<witem, wexp, wexisting, wresp, wfh, wstaged, qvars, fvars, gvars, rvars>>

\* lines 244-249: q = Queue(); max(1, args.workers) daemon threads are started
MainStartThreads ==
    /\ mpc = "start"
    /\ entries # <<>>
    /\ threads' = 1..Max(1, args.workers)
    /\ wpc' = [t \in Workers |-> IF t \in 1..Max(1, args.workers) THEN "get" ELSE "idle"]
    /\ mpc' = "put"
    /\ mi' = 1
    /\ UNCHANGED <<witem, wexp, wexisting, wresp, wfh, wstaged, qvars, fvars, gvars, rvars>>

\* lines 251-252: q.put(e), one descriptor per step
MainPut ==
    /\ mpc = "put"
    /\ queue' = Append(queue, mi)
    /\ unfinished' = unfinished + 1
    /\ mi' = mi + 1
    /\ mpc' = IF mi = Len(entries) THEN "join" ELSE "put"
    /\ UNCHANGED <<threads, fvars, wvars, gvars, rvars>>

\* a dispatcher that waits for the queue to be empty, not for the work taken
\* from it to be finished
MainJoin_QueueEmpty ==
    /\ mpc = "join"
    /\ queue = <<>>
    /\ mpc' = "stop"
    /\ mi' = 1
    /\ UNCHANGED <<threads, qvars, fvars, wvars, gvars, rvars>>

\* line 254: q.join() returns when unfinished_tasks is zero
MainJoin ==
    /\ mpc = "join"
    /\ unfinished = 0
    /\ mpc' = "stop"
    /\ mi' = 1
    /\ UNCHANGED <<threads, qvars, fvars, wvars, gvars, rvars>>

\* a dispatcher that puts a single sentinel, however many threads it started
MainPutSentinel_Single ==
    /\ mpc = "stop"
    /\ queue' = Append(queue, Sentinel)
    /\ unfinished' = unfinished + 1
    /\ mi' = mi + 1
    /\ mpc' = "tjoin"
    /\ UNCHANGED <<threads, fvars, wvars, gvars, rvars>>

\* lines 255-256: q.put(None), one per thread
MainPutSentinel ==
    /\ mpc = "stop"
    /\ queue' = Append(queue, Sentinel)
    /\ unfinished' = unfinished + 1
    /\ mi' = mi + 1
    /\ mpc' = IF mi = Cardinality(threads) THEN "tjoin" ELSE "stop"
    /\ UNCHANGED <<threads, fvars, wvars, gvars, rvars>>

\* lines 257-260: t.join() for every thread, then [DONE]
MainJoinThreads ==
    /\ mpc = "tjoin"
    /\ \A t \in threads : wpc[t] \in {"exited", "crashed"}
    /\ mpc' = "done"
    /\ UNCHANGED <<mi, threads, qvars, fvars, wvars, gvars, rvars>>

(* ----------------------------- environment ----------------------------- *)
\* the process is killed: its threads, queue and open files are gone, the
\* directory stays as it is
Kill ==
    /\ mpc \notin {"done", "returned", "killed"}
    /\ mpc' = "killed"
    /\ mi' = 0
    /\ threads' = {}
    /\ queue' = <<>>
    /\ unfinished' = 0
    /\ ResetWorkers
    /\ data' = Collect(data, fs, [t \in Workers |-> None])
    /\ UNCHANGED <<outdir, fs, gvars, rvars>>

PassedLines == {"OK", "OK_EXISTS"}

\* the same command line is run again over the same output directory, as
\* run number r
RerunTo(r) ==
    /\ mpc \in {"done", "returned", "killed"}
    /\ run' = r
    /\ prevPass' = IF Verify THEN {i \in DOMAIN entries : log[i] \in PassedLines} ELSE {}
    /\ yielded' = <<>>
    /\ entries' = <<>>
    /\ start' = <<>>
    /\ mpc' = "load"
    /\ mi' = 0
    /\ threads' = {}
    /\ queue' = <<>>
    /\ unfinished' = 0
    /\ ResetWorkers
    /\ log' = <<>>
    /\ reqs' = {}
    /\ UNCHANGED <<args, doc, src, fvars>>

\* up to MaxRuns runs
Rerun == run < MaxRuns /\ RerunTo(run + 1)

\* any number of runs (they are not counted)
RunAgain == RerunTo(run)

(* --------------------------- specifications ---------------------------- *)
URLs == {"u1", "u2"}
Digest(c, up) == [digest |-> DigestOf(c), upper |-> up]

\* the descriptors read by entry.get from a dict of the document
DictOf(e) ==
    Dict(<<"filename", "download_url">>
             \o (IF e.file_size_bytes # None THEN <<"file_size_bytes">> ELSE <<>>)
             \o (IF e.sha1sum # None THEN <<"sha1sum">> ELSE <<>>),
         [k \in 1..(2 + (IF e.file_size_bytes # None THEN 1 ELSE 0)
                        + (IF e.sha1sum # None THEN 1 ELSE 0)) |-> Scalar],
         e)

\* a document that is a list of descriptors
FlatDoc(batch) == List([k \in DOMAIN batch |-> DictOf(batch[k])])

InitWith(docs, argset, sources) ==
    /\ doc \in docs
    /\ yielded = <<>>
    /\ entries = <<>>
    /\ args \in argset
    /\ src \in sources
    /\ outdir = FALSE
    /\ fs = EmptyDir
    /\ data = NoData
    /\ queue = <<>>
    /\ unfinished = 0
    /\ mpc = "load"
    /\ mi = 0
    /\ threads = {}
    /\ FreshWorkers
    /\ log = <<>>
    /\ reqs = {}
    /\ run = 1
    /\ prevPass = {}
    /\ start = <<>>

WorkerStep(t) ==
    \/ WorkerGet(t)
    \/ DlNoUrl(t)
    \/ DlExpectedSize(t)
    \/ DlCheckExisting(t)
    \/ DlCheckHashFails(t)
    \/ DlCheckRaises(t)
    \/ RdRequest(t)
    \/ RdRequestFails(t)
    \/ RdOpen(t)
    \/ RdWrite(t)
    \/ RdEof(t)
    \/ RdShortBody(t)
    \/ RdIoFails(t)
    \/ RdReplace(t)
    \/ DlVerify(t)
    \/ DlVerifyRaises(t)

MainStep ==
    \/ MainFindEntries
    \/ MainNoEntries
    \/ MainStartThreads
    \/ MainPut
    \/ MainJoin
    \/ MainPutSentinel
    \/ MainJoinThreads

Next ==
    \/ MainStep
    \/ \E t \in Workers : WorkerStep(t)
    \/ Kill
    \/ Rerun

\* one descriptor, one worker: every source, every size and checksum
\* expectation, every flag combination
OneNames == {<<"a", ".", "v", "r", "s">>}
OneArgs == [workers : {1}, max_files : {-1}, no_verify : BOOLEAN, skip_existing : BOOLEAN]
OneSources == {[u \in URLs |-> IF u = "u1" THEN c ELSE <<1>>] : c \in Sources}
OneEntries ==
    {Entry(n, Some("u1"), size, sha) :
        n \in OneNames,
        size \in {None} \cup {Some(k) : k \in 1..MaxLen},
        sha \in {None} \cup {Some(Digest(c, TRUE)) : c \in {<<1>>, <<1, 2>>}}}
OneBatches ==
    {<<>>, <<Entry(<<"a", ".", "v", "r", "s">>, None, None, None)>>}
        \cup {<<e>> : e \in OneEntries}

InitOne == InitWith({FlatDoc(b) : b \in OneBatches}, OneArgs, OneSources)
SpecOne == InitOne /\ [][Next]_vars


\* the dispatcher: up to MaxEntries descriptors, whose names may collide after
\* sanitize_filename, and up to MaxWorkers threads
PoolNames == {<<"a", ":", ".", "v", "r", "s">>, <<"a", "?", ".", "v", "r", "s">>,
              <<"b", ".", "v", "r", "s">>}
PoolEntries ==
    {Entry(n, Some("u1"), None, IF n[2] = "?" THEN Some(Digest(<<1, 2>>, TRUE)) ELSE None) :
        n \in PoolNames}
        \cup {Entry(<<"b", ".", "v", "r", "s">>, Some(""), None, None)}
PoolBatches == {b \in SeqsUpTo(PoolEntries, MaxEntries) : TRUE}
PoolArgs ==
    [workers : {-1, 0, MaxWorkers}, max_files : {-1}, no_verify : {FALSE},
     skip_existing : {FALSE}]
PoolSources == {[u \in URLs |-> IF u = "u1" THEN <<1, 2>> ELSE <<1>>]}

\* one invocation of the program
NextOnce ==
    \/ MainStep
    \/ \E t \in Workers : WorkerStep(t)
    \/ Kill

Init == InitWith({FlatDoc(b) : b \in PoolBatches}, PoolArgs, PoolSources)
Spec == Init /\ [][NextOnce]_vars


\* one invocation in which the only faults are failed transfers, every thread
\* that can take a step eventually being scheduled
WorkerStepFair(t) ==
    \/ WorkerGet(t)
    \/ DlNoUrl(t)
    \/ DlExpectedSize(t)
    \/ DlCheckExisting(t)
    \/ RdRequest(t)
    \/ RdRequestFails(t)
    \/ RdOpen(t)
    \/ RdWrite(t)
    \/ RdEof(t)
    \/ RdShortBody(t)
    \/ RdIoFails(t)
    \/ RdReplace(t)
    \/ DlVerify(t)

NextFair ==
    \/ MainStep
    \/ \E t \in Workers : WorkerStepFair(t)

SpecFair ==
    /\ Init
    /\ [][NextFair]_vars
    /\ WF_vars(MainStep)
    /\ \A t \in Workers : WF_vars(WorkerStepFair(t))

\* the filter and the cap: documents of up to MaxEntries + 1 descriptors whose
\* names do or do not match, every --max-files from -1 to MaxEntries, one
\* thread, and no fault other than a failed transfer
CapNames == {<<"a", ".", "v", "r", "s">>, <<"b", ".", "V", "r", "S">>,
             <<"a", ".", "v", "r", "s", "\n">>, <<"c", ".", "t", "x", "t">>}
CapEntries ==
    {Entry(n, Some("u1"), None, None) : n \in CapNames}
        \cup {Entry(<<"a", ".", "v", "r", "s">>, Some(""), None, None)}
CapDocs == {FlatDoc(b) : b \in SeqsUpTo(CapEntries, MaxEntries + 1)}
CapArgs ==
    [workers : {0}, max_files : (-1)..MaxEntries, no_verify : {TRUE}, skip_existing : {FALSE}]
CapSources == {[u \in URLs |-> <<1>>]}

InitCap == InitWith(CapDocs, CapArgs, CapSources)
SpecCap == InitCap /\ [][NextFair]_vars

\* the extraction alone: every document of lists (up to two items) and dicts
\* (with and without the two keys, up to two values) nested to depth MaxDepth
KeyShapes == {<<"filename", "download_url">>, <<"filename", "sequences">>, <<"sequences">>}

RECURSIVE Docs(_)
Docs(d) ==
    IF d = 0 THEN {Scalar}
    ELSE LET sub == Docs(d - 1)
         IN  sub \cup {List(items) : items \in SeqsUpTo(sub, 2)}
                 \cup UNION {{Dict(ks, vals, NoFields) : vals \in [1..Len(ks) -> sub]} :
                                ks \in KeyShapes}

DocArgs == [workers : {1}, max_files : {-1}, no_verify : {FALSE}, skip_existing : {FALSE}]

NextDoc ==
    \/ MainFindEntries
    \/ MainNoEntries

InitDoc == InitWith(Docs(MaxDepth), DocArgs, CapSources)
SpecDoc == InitDoc /\ [][NextDoc]_vars

\* repeated runs for one descriptor against a correct server: it honors the
\* Range header (200 with the whole content, 206 with the rest) and answers a
\* range that starts at or after the end of the content with 416; nothing
\* else fails.  The output directory starts with no staging file or with a
\* staging file that holds any prefix of the source, the whole of it included.
HonestEntries ==
    {Entry(n, Some("u1"), size, None) :
        n \in OneNames, size \in {None} \cup {Some(k) : k \in 1..MaxLen}}
HonestArgs ==
    [workers : {1}, max_files : {-1}, no_verify : BOOLEAN, skip_existing : {FALSE}]

InitHonest ==
    /\ doc \in {FlatDoc(<<e>>) : e \in HonestEntries}
    /\ yielded = <<>>
    /\ entries = <<>>
    /\ args \in HonestArgs
    /\ src \in OneSources
    /\ \E staged \in {None} \cup {Some(SubSeq(src["u1"], 1, n)) : n \in 0..Len(src["u1"])} :
           /\ outdir = (staged # None)
           /\ fs = IF staged = None THEN EmptyDir
                   ELSE [p \in {TmpPath(DestPath(sanitize_filename(n))) : n \in OneNames}
                            |-> 1]
           /\ data = IF staged = None THEN NoData ELSE [n \in {1} |-> staged[1]]
    /\ queue = <<>>
    /\ unfinished = 0
    /\ mpc = "load"
    /\ mi = 0
    /\ threads = {}
    /\ FreshWorkers
    /\ log = <<>>
    /\ reqs = {}
    /\ run = 1
    /\ prevPass = {}
    /\ start = <<>>

\* the request as the correct server answers it
HonestRequest(t) ==
    LET i == witem[t]
        existing == IF Exists(TmpOf(i)) THEN GetSize(TmpOf(i)) ELSE 0
    IN  \/ /\ Satisfiable("honor", UrlOf(i), existing)
           /\ RdRequest(t)
           /\ wresp'[t] = Answer("honor", UrlOf(i), existing)
        \/ /\ ~Satisfiable("honor", UrlOf(i), existing)
           /\ RdRequestFails(t)

WorkerStepHonest(t) ==
    \/ WorkerGet(t)
    \/ DlExpectedSize(t)
    \/ DlCheckExisting(t)
    \/ wpc[t] = "rd_start" /\ HonestRequest(t)
    \/ RdOpen(t)
    \/ RdWrite(t)
    \/ RdEof(t)
    \/ RdReplace(t)
    \/ DlVerify(t)

MainStepHonest ==
    \/ MainFindEntries
    \/ MainStartThreads
    \/ MainPut
    \/ MainJoin
    \/ MainPutSentinel
    \/ MainJoinThreads

NextHonest ==
    \/ MainStepHonest
    \/ \E t \in Workers : WorkerStepHonest(t)
    \/ RunAgain

SpecHonest ==
    /\ InitHonest
    /\ [][NextHonest]_vars
    /\ WF_vars(MainStepHonest)
    /\ \A t \in Workers : WF_vars(WorkerStepHonest(t))
    /\ WF_vars(RunAgain)

(* ------------------------------- claims -------------------------------- *)
\* ranged_download has returned True in worker t (the staging file was promoted)
Promoted(t) == wpc[t] = "d_verify"
\* every byte of the response body was read before the end of the stream
BodyComplete(t) == wresp[t].body = <<>>
\* ranged_download found a staging file with bytes in it and sent a Range header
Resumed(t) == wstaged[t] # None /\ Len(wstaged[t][1]) > 0
IsPrefix(a, b) == Len(a) <= Len(b) /\ a = SubSeq(b, 1, Len(a))

\* C1: when ranged_download finds N > 0 staged bytes, sends the Range header
\* and the server answers 200 with the whole content, the promoted file is
\* exactly that content (the original claim; the code appends it to the N bytes).
C1_RestartOnFullBody ==
    \A t \in Workers :
        (Promoted(t) /\ Resumed(t) /\ wresp[t].status = 200 /\ BodyComplete(t))
            => ReadFile(DestOf(witem[t])) = src[UrlOf(witem[t])]

\* C2: a download that resumes from a staging file holding the first N > 0
\* bytes of the source, against a server that answers 206 with the bytes from
\* N on, writes at offset N and promotes the very file a fresh download (no
\* staging file, 200 with the whole content) promotes: the source.
C2_ResumeCorrect ==
    \A t \in Workers :
        (Promoted(t) /\ BodyComplete(t)) =>
            /\ (wstaged[t] = None /\ wresp[t].status = 200)
                   => ReadFile(DestOf(witem[t])) = src[UrlOf(witem[t])]
            /\ (Resumed(t) /\ IsPrefix(wstaged[t][1], src[UrlOf(witem[t])])
                    /\ wresp[t].status = 206)
                   => /\ wexisting[t] = Len(wstaged[t][1])
                      /\ ReadFile(DestOf(witem[t])) = src[UrlOf(witem[t])]

C2_Witness ==
    \E t \in Workers :
        /\ Promoted(t) /\ BodyComplete(t) /\ Resumed(t)
        /\ wresp[t].status = 206
        /\ IsPrefix(wstaged[t][1], src[UrlOf(witem[t])])
        /\ Len(src[UrlOf(witem[t])]) = MaxLen
        /\ ReadFile(DestOf(witem[t])) = src[UrlOf(witem[t])]

\* C3: the destination path never holds a partial file: a staging file is
\* promoted only after its transfer read the whole response body, and no file
\* still open for writing is reachable under a destination path (the original
\* claim; a body cut short by the peer is promoted as it is).
C3_DestinationNeverPartial ==
    /\ \A t \in Workers : Promoted(t) => BodyComplete(t)
    /\ \A t \in Workers : \A i \in DOMAIN entries :
           (wfh[t] # None /\ Exists(DestOf(i))) => fs[DestOf(i)] # wfh[t][1].ino

\* C4: an exception raised by download_one does not end the worker that hit
\* it (the original claim; the thread ends after task_done).
C4_WorkerSurvivesRaise ==
    (\E i \in DOMAIN entries : log[i] = "RAISED")
        => \A t \in threads : wpc[t] # "crashed"

\* C6: with --skip-existing a file present at the destination path when the
\* run starts is left as it is and no transfer is made for its descriptor (the
\* original claim; the code downloads it again).
C6_SkipExistingKeepsFile ==
    args.skip_existing =>
        \A i \in DOMAIN entries :
            start[i] # None => (<<i, "GET">> \notin reqs /\ DestContent(i) = start[i])

\* C7: in a second run with verify enabled, no request goes to the server for
\* a descriptor whose file passed verification in the first run, and the file
\* stays as it is (the original claim; the code sends a HEAD request).
C7_SecondRunNoRequests ==
    (run >= 2 /\ Verify) =>
        \A i \in prevPass \cap DOMAIN entries :
            /\ <<i, "HEAD">> \notin reqs
            /\ <<i, "GET">> \notin reqs
            /\ DestContent(i) = start[i]

\* C8: ranged_download returns True only for a response with status 200 or
\* 206 (the original claim; a 204 is written and promoted).
C8_OnlyFullOrPartial ==
    \A t \in Workers : Promoted(t) => wresp[t].status \in {200, 206}

\* C9: no two workers are writing or renaming the same staging path at the
\* same time (the original claim; names that collide share their paths).
C9_NoSharedPath ==
    \A t, u \in Workers :
        (t # u /\ wpc[t] \in {"rd_loop", "rd_replace"} /\ wpc[u] \in {"rd_loop", "rd_replace"})
            => TmpOf(witem[t]) # TmpOf(witem[u])

\* C10: once q.join() has returned, and so at [DONE], every descriptor that
\* was put has been taken from the queue and its download_one has finished.
AllProcessed ==
    /\ \A k \in 1..Len(queue) : queue[k] = Sentinel
    /\ \A t \in Workers : wpc[t] \in {"idle", "get", "exited", "crashed"}
    /\ \A i \in DOMAIN entries : log[i] # ""

C10_JoinMeansAllProcessed == mpc \in {"stop", "tjoin", "done"} => AllProcessed

C10_Witness ==
    /\ mpc = "done"
    /\ Len(entries) = MaxEntries
    /\ Cardinality(threads) = MaxWorkers
    /\ \A i \in DOMAIN entries : log[i] \in {"OK", "OK_EXISTS"}

\* C5: when transfers fail, the other descriptors are still processed and the
\* dispatcher returns: every run ends with main returned and a status line for
\* every descriptor.
C5_FailedTransferIsolated ==
    <>(mpc \in {"done", "returned"} /\ \A i \in DOMAIN entries : log[i] # "")

C5_Witness ==
    /\ mpc = "done"
    /\ \E i, j \in DOMAIN entries : log[i] = "FAIL" /\ log[j] = "OK"

\* the bytes of the response body that worker t has read and written so far
Received(t) ==
    LET content == src[UrlOf(witem[t])]
        sent == CASE wresp[t].status = 200 -> content
                  [] wresp[t].status = 206 ->
                         SubSeq(content, Len(wstaged[t][1]) + 1, Len(content))
                  [] OTHER -> <<>>
    IN  SubSeq(sent, 1, Len(sent) - Len(wresp[t].body))

\* C11: when ranged_download fails (the request, the open, a read, a write or
\* the rename raises) the step that returns the failure changes no file: the
\* staging path, when the call has opened it, still holds the bytes it had when
\* the call chose to append to them followed by the bytes written so far, and
\* the destination path holds what it held when the run started.
C11_FailureKeepsStaging ==
    [][\A t \in Workers :
          (wpc[t] \in {"rd_start", "rd_open", "rd_loop", "rd_replace"}
              /\ wpc'[t] = "get" /\ log'[witem[t]] = "FAIL")
          => /\ fs' = fs
             /\ \A p \in DOMAIN fs : data'[fs[p]] = data[fs[p]]
             /\ DestContent(witem[t]) = start[witem[t]]
             /\ wpc[t] \in {"rd_loop", "rd_replace"}
                    => /\ Exists(TmpOf(witem[t]))
                       /\ ReadFile(TmpOf(witem[t]))
                              = (IF wexisting[t] > 0 THEN wstaged[t][1] ELSE <<>>)
                                    \o Received(t)]_vars

C11_Witness ==
    /\ \E i \in DOMAIN entries :
           /\ log[i] = "FAIL"
           /\ Exists(TmpOf(i)) /\ GetSize(TmpOf(i)) = 1
           /\ Len(src[UrlOf(i)]) = MaxLen
           /\ DestContent(i) = start[i]
    /\ run = 1

\* the file at the destination path of worker t's descriptor has the size
\* `expected` (when there is one) and the checksum of the descriptor (when it
\* gives one), whatever the letter case of the checksum
MatchesExpectations(t, expected) ==
    LET e == entries[witem[t]]
        dest == DestOf(witem[t])
    IN  /\ Exists(dest)
        /\ expected # None => GetSize(dest) = expected[1]
        /\ e.sha1sum # None => DigestOf(ReadFile(dest)) = e.sha1sum[1].digest

Skipped(t) == wpc'[t] = "get" /\ log'[witem[t]] = "OK_EXISTS"

C13_FirstNEligible ==
    LET elig == Eligible(doc, recursive_find_entries(doc))
        N == args.max_files
        K == IF N = -1 THEN Len(elig) ELSE IF Len(elig) < N THEN Len(elig) ELSE N
    IN  (mpc # "load" /\ (N >= 1 \/ N = -1)) =>
            /\ Len(entries) = K
            /\ \A i \in 1..K : entries[i] = elig[i]
            /\ \A r \in reqs : r[1] \in 1..K
            /\ \A p \in DOMAIN fs :
                   \E i \in 1..K :
                       LET name == sanitize_filename(elig[i].filename)
                       IN  p = name \/ p = name \o <<".part">>
            /\ \A k \in 1..Len(queue) : queue[k] \in 0..K
            /\ mpc = "done" => \A i \in 1..K : log[i] # ""

C13_Witness ==
    /\ mpc = "done"
    /\ args.max_files = MaxEntries
    /\ Len(Eligible(doc, yielded)) = MaxEntries + 1
    /\ Len(entries) = MaxEntries
    /\ \A i \in DOMAIN entries : log[i] = "DONE"
    /\ doc.kids[MaxEntries + 1].fields.filename = <<"b", ".", "V", "r", "S">>
    /\ ~Exists(<<"b", ".", "V", "r", "S">>)

\* the positions of a document: every sequence of child indices that leads
\* to a node
RECURSIVE IsPosition(_, _)
IsPosition(obj, path) ==
    \/ path = <<>>
    \/ Head(path) <= Len(obj.kids) /\ IsPosition(obj.kids[Head(path)], Tail(path))

Positions(obj) == {p \in SeqsUpTo(1..2, MaxDepth) : IsPosition(obj, p)}

\* p comes before q in a depth-first, parent-first, left-to-right walk
PreOrderBefore(p, q) ==
    /\ p # q
    /\ \/ IsPrefix(p, q)
       \/ \E i \in 1..Min(Len(p), Len(q)) :
              /\ SubSeq(p, 1, i - 1) = SubSeq(q, 1, i - 1)
              /\ p[i] < q[i]

\* C14: recursive_find_entries yields exactly the dict nodes that have both a
\* 'filename' and a 'download_url' key, wherever they are in the document
\* (siblings, and nodes inside a node that was itself yielded), each once, in
\* depth-first parent-first left-to-right order.
C14_ExtractionComplete ==
    LET wanted == {p \in Positions(doc) :
                      /\ NodeAt(doc, p).kind = "dict"
                      /\ \E k \in DOMAIN NodeAt(doc, p).keys :
                             NodeAt(doc, p).keys[k] = "filename"
                      /\ \E k \in DOMAIN NodeAt(doc, p).keys :
                             NodeAt(doc, p).keys[k] = "download_url"}
    IN  mpc # "load" =>
            /\ {yielded[k] : k \in DOMAIN yielded} = wanted
            /\ Len(yielded) = Cardinality(wanted)
            /\ \A j, k \in DOMAIN yielded : j < k => PreOrderBefore(yielded[j], yielded[k])

C14_Witness ==
    /\ mpc # "load"
    /\ yielded = <<<<>>, <<1>>, <<2>>>>
    /\ doc.kind = "dict"

\* C15: when the file that a download has just promoted does not have the
\* expected size or checksum, download_one prints a warning and returns: the
\* file stays at the destination path as it is, no file is changed, and the
\* worker goes back to the queue.
C15_MismatchOnlyWarns ==
    [][\A t \in Workers :
          (DlVerify(t) /\ Verify
              /\ ~MatchesExpectations(t, wexp[t]))
          => /\ log'[witem[t]] = "WARN"
             /\ fs' = fs /\ data' = data
             /\ Exists(DestOf(witem[t]))
             /\ wpc'[t] = "get"]_vars

C15_Witness ==
    /\ mpc = "done"
    /\ Len(entries) = MaxEntries
    /\ log[1] = "WARN" /\ log[MaxEntries] = "OK"
    /\ Cardinality(threads) = 1
    /\ Exists(DestOf(1)) /\ GetSize(DestOf(1)) < MaxLen
    /\ DestOf(1) # DestOf(MaxEntries)

\* C16: download_one on a descriptor whose download_url is missing or empty
\* prints [SKIP] and returns: no request is sent, the output directory is not
\* created, no file is created or changed, nothing is raised and the worker
\* goes back to the queue.
C16_NoUrlTouchesNothing ==
    [][\A t \in Workers :
          (wpc[t] = "d_start" /\ wpc'[t] # "d_start" /\ mpc' # "killed"
              /\ entries[witem[t]].download_url \in {None, Some("")})
          => /\ log'[witem[t]] = "SKIP"
             /\ reqs' = reqs
             /\ outdir' = outdir /\ fs' = fs /\ data' = data
             /\ wpc'[t] = "get"]_vars

C16_Witness ==
    /\ mpc = "done"
    /\ Len(entries) = MaxEntries
    /\ \A i \in DOMAIN entries : log[i] = "SKIP"
    /\ ~outdir /\ fs = EmptyDir /\ reqs = {}
    /\ \A t \in threads : wpc[t] = "exited"

\* C17: with verify enabled and a descriptor that declares the true size S of
\* the source, a transfer that finds fewer than S of the source's bytes on disk
\* resumes at that offset, and once the whole response (200 or 206) has been
\* read the file at the destination path is the source, S bytes long (the
\* original claim; the body of a 200 response is appended to the bytes on disk).
C17_ResumeReachesDeclaredSize ==
    \A t \in Workers :
        LET i == witem[t] IN
        (/\ Promoted(t) /\ Verify /\ BodyComplete(t)
         /\ entries[i].file_size_bytes = Some(Len(src[UrlOf(i)]))
         /\ Resumed(t)
         /\ Len(wstaged[t][1]) < Len(src[UrlOf(i)])
         /\ IsPrefix(wstaged[t][1], src[UrlOf(i)])
         /\ wresp[t].status \in {200, 206})
        => /\ wexisting[t] = Len(wstaged[t][1])
           /\ GetSize(DestOf(i)) = entries[i].file_size_bytes[1]
           /\ ReadFile(DestOf(i)) = src[UrlOf(i)]

\* the name's last four characters are .vrs in any letter case
EndsWithVrs(name) ==
    /\ Len(name) >= 4
    /\ \E ext \in [1..4 -> {".", "v", "V", "r", "R", "s", "S"}] :
           /\ ext = SubSeq(name, Len(name) - 3, Len(name))
           /\ ext[1] = "." /\ ext[2] \in {"v", "V"} /\ ext[3] \in {"r", "R"}
           /\ ext[4] \in {"s", "S"}

\* C18: a yielded descriptor is put on main's list if and only if its filename
\* ends with .vrs in any letter case (the original claim; a name that ends
\* with .vrs and a newline is taken too).
C18_EnqueuedIffVrsSuffix ==
    (mpc # "load" /\ args.max_files = -1) =>
        entries = SelectSeq([k \in DOMAIN yielded |-> NodeAt(doc, yielded[k]).fields],
                            LAMBDA e : EndsWithVrs(e.filename))

\* where descriptor i of main's list is: not yet put, in the queue, held by a
\* worker inside download_one, or finished
Stages(i) ==
    (IF mpc = "start" \/ (mpc = "put" /\ mi <= i) THEN 1 ELSE 0)
        + Cardinality({k \in DOMAIN queue : queue[k] = i})
        + Cardinality({t \in Workers : witem[t] = i})
        + (IF log[i] # "" THEN 1 ELSE 0)

\* C19: every descriptor of main's list is at all times in exactly one place:
\* waiting to be put, once in the queue, held by exactly one worker, or
\* finished; so it is taken by one worker, download_one runs once for it, and
\* at [DONE] none is left unprocessed.
C19_ExactlyOnce ==
    mpc \notin {"load", "killed"} =>
        /\ \A i \in DOMAIN entries : Stages(i) = 1
        /\ \A t \in Workers :
               (wpc[t] \in {"idle", "get", "exited", "crashed"}) <=> (witem[t] = 0)
        /\ mpc = "done" => \A i \in DOMAIN entries : log[i] # ""

C19_Witness ==
    /\ Len(entries) = MaxEntries
    /\ \E t, u \in threads :
           /\ witem[t] = 1 /\ witem[u] = MaxEntries
           /\ wpc[t] = "rd_loop" /\ wpc[u] = "rd_loop"
    /\ queue = <<>>

\* C20: main starts max(1, --workers) threads, one for --workers 0 or less,
\* only these threads ever take descriptors, and each holds at most one at a
\* time: the number of descriptors in flight never exceeds max(1, --workers).
C20_BoundedParallelism ==
    LET limit == IF args.workers >= 1 THEN args.workers ELSE 1 IN
    /\ mpc \in {"put", "join", "stop", "tjoin", "done"} => Cardinality(threads) = limit
    /\ Cardinality({t \in Workers : wpc[t] \notin {"idle", "get", "exited", "crashed"}}) <= limit
    /\ \A t \in Workers : wpc[t] # "idle" => t \in threads

C20_Witness ==
    /\ args.workers < 1
    /\ Cardinality(threads) = 1
    /\ Len(entries) = MaxEntries
    /\ \E t \in threads : witem[t] = 1 /\ wpc[t] = "rd_loop"
    /\ queue = <<MaxEntries>>

\* the sentinels main has put so far
SentinelsPut ==
    CASE mpc = "stop" -> mi - 1
      [] mpc \in {"tjoin", "done"} -> Cardinality(threads)
      [] OTHER -> 0

\* C21: in a run in which every download_one call returns, sentinels are on
\* the queue only after q.join() has returned, one per started thread; each
\* sentinel put is either still queued or was taken by one thread, which
\* exited, and no thread has exited while a descriptor is queued or in flight;
\* and in the end every thread has exited and main is at [DONE] with an empty
\* queue (or has returned for want of entries).
C21_SentinelShutdown ==
    /\ [](/\ (\E k \in DOMAIN queue : queue[k] = Sentinel)
                 => mpc \in {"stop", "tjoin", "done"}
          /\ Cardinality({k \in DOMAIN queue : queue[k] = Sentinel})
                 + Cardinality({t \in threads : wpc[t] = "exited"}) = SentinelsPut
          /\ (\E t \in threads : wpc[t] = "exited")
                 => /\ \A k \in DOMAIN queue : queue[k] = Sentinel
                    /\ \A t \in Workers : witem[t] = 0
                    /\ \A i \in DOMAIN entries : log[i] # "")
    /\ <>(\/ mpc = "returned"
          \/ /\ mpc = "done" /\ queue = <<>>
             /\ \A t \in threads : wpc[t] = "exited")

C21_Witness ==
    /\ mpc = "done" /\ queue = <<>>
    /\ Cardinality(threads) = MaxWorkers
    /\ \A t \in threads : wpc[t] = "exited"
    /\ Len(entries) = MaxEntries
    /\ \E i \in DOMAIN entries : log[i] = "FAIL"

\* C22: whatever the staging path holds at the start (nothing, a strict prefix
\* of the source, or the whole source), repeated runs against a correct,
\* range-honoring server eventually end with the complete source at the
\* destination path (the original claim; a staging file that already holds the
\* whole source gets 416 in every run and is never promoted).
C22_EventuallyPromoted ==
    <>(/\ mpc = "done"
       /\ \A i \in DOMAIN entries :
              Exists(DestOf(i)) /\ ReadFile(DestOf(i)) = src[UrlOf(i)])

=============================================================================
